---- MODULE Spec2Model ----
(***************************************************************************)
(* Model of email-validator-strict (src/src/index.ts).                     *)
(*                                                                         *)
(* A JavaScript string is a sequence of one-character strings.  Characters *)
(* that TLA+ cannot write literally are named by their code point          *)
(* ("U+00E9").  A regular expression is a syntax tree (records) that is    *)
(* interpreted by Ends: the set of positions where a match that starts at  *)
(* one of the positions I can end.  validateEmailStrict is an async        *)
(* function: its synchronous prefix (up to the await of dns.resolveMx or   *)
(* up to a return/throw) is one step, the settlement of the lookup is      *)
(* another.                                                                *)
(***************************************************************************)
EXTENDS Integers, Sequences, FiniteSets, TLC

VARIABLES email, options, pc, result, error, mxCalls, mxOutcome,
          lastIndex, completed, inflight

\* email .. mxOutcome: one call of validateEmailStrict, its arguments, its
\*   position, what its promise settled to and the lookups it made
\* lastIndex: the lastIndex property of the two module-level RegExp objects,
\*   the only objects the calls share
\* completed: the number of earlier calls that have returned
\* inflight: the calls of a caller that issues several at once, each with the
\*   fields of the single call
vars == <<email, options, pc, result, error, mxCalls, mxOutcome,
          lastIndex, completed, inflight>>

----------------------------------------------------------------------------
(* Bounds of the model *)

MaxLen == 6
MaxSyntaxLen == 6
MaxRealWorldLen == 6
MaxRecords == 2
MaxTrimLen == 6
MaxParts == 5
MaxRepeatLen == 6
MaxCalls == 2
MaxInFlight == 2

----------------------------------------------------------------------------
(* Characters and character classes *)

Lower == {"a","b","c","d","e","f","g","h","i","j","k","l","m",
          "n","o","p","q","r","s","t","u","v","w","x","y","z"}
Upper == {"A","B","C","D","E","F","G","H","I","J","K","L","M",
          "N","O","P","Q","R","S","T","U","V","W","X","Y","Z"}
Digit == {"0","1","2","3","4","5","6","7","8","9"}

\* ECMAScript WhiteSpace and LineTerminator code points: what \s matches and
\* what String.prototype.trim strips.
LineTerminator == {"\n", "\r", "U+2028", "U+2029"}
WhiteSpace == {" ", "\t", "\f", "U+000B", "U+00A0", "U+FEFF", "U+1680",
               "U+2000", "U+202F", "U+205F", "U+3000"} \cup LineTerminator

\* [...] and [^...]
Pos(S) == [op |-> "cls", neg |-> FALSE, chars |-> S]
Neg(S) == [op |-> "cls", neg |-> TRUE, chars |-> S]
\* a literal character
Lit(c) == Pos({c})
\* the regex dot (no s flag): anything but a line terminator
Dot == Neg(LineTerminator)

Cat(items) == [op |-> "cat", items |-> items]
Alt(items) == [op |-> "alt", items |-> items]
Star(r) == [op |-> "star", r |-> r]
Plus(r) == Cat(<<r, Star(r)>>)
Opt(r) == [op |-> "opt", r |-> r]

Matches(cls, c) == (c \in cls.chars) # cls.neg

----------------------------------------------------------------------------
(* Regular expression matching *)

RECURSIVE Ends(_, _, _)
RECURSIVE CatEnds(_, _, _, _)
RECURSIVE StarEnds(_, _, _)

\* positions after a match of r that starts at a position of I
Ends(r, s, I) ==
  IF I = {} THEN {}
  ELSE CASE r.op = "cls" ->
              { i + 1 : i \in { j \in I : j <= Len(s) /\ Matches(r, s[j]) } }
         [] r.op = "cat" -> CatEnds(r.items, 1, s, I)
         [] r.op = "alt" -> UNION { Ends(r.items[k], s, I) : k \in 1..Len(r.items) }
         [] r.op = "star" -> StarEnds(r.r, s, I)
         [] r.op = "opt" -> I \cup Ends(r.r, s, I)

CatEnds(items, k, s, I) ==
  IF k > Len(items) THEN I
  ELSE CatEnds(items, k + 1, s, Ends(items[k], s, I))

StarEnds(r, s, I) ==
  LET J == Ends(r, s, I) \ I
  IN IF J = {} THEN I ELSE I \cup StarEnds(r, s, J)

\* RegExp.prototype.test for a pattern of the form ^r$ (no m, g or y flag)
Test(r, s) == (Len(s) + 1) \in Ends(r, s, {1})

----------------------------------------------------------------------------
(* The grammars *)

\* [^<>()[\]\\.,;:\s@"]
realWorldLocalChar ==
  Neg({"<", ">", "(", ")", "[", "]", "\\", ".", ",", ";", ":", "@", "\""}
      \cup WhiteSpace)
Alnum == Pos(Lower \cup Upper \cup Digit)
AlnumHyphen == Pos(Lower \cup Upper \cup Digit \cup {"-"})
Alpha == Pos(Lower \cup Upper)

\* variant: a final label of one letter is enough
realWorldEmailRegex_ShortTld ==
  Cat(<< Cat(<< Plus(realWorldLocalChar),
                Star(Cat(<<Lit("."), Plus(realWorldLocalChar)>>)) >>),
         Lit("@"),
         Cat(<< Plus(Cat(<< Alnum,
                            Opt(Cat(<<Star(AlnumHyphen), Alnum>>)),
                            Lit(".") >>)),
                Alpha, Star(Alpha) >>) >>)

\* /^(L+(\.L+)*)@(([a-zA-Z0-9](?:[a-zA-Z0-9-]*[a-zA-Z0-9])?\.)+[a-zA-Z]{2,})$/i
\* with L = realWorldLocalChar; the i flag adds nothing to these classes
realWorldEmailRegex ==
  Cat(<< Cat(<< Plus(realWorldLocalChar),
                Star(Cat(<<Lit("."), Plus(realWorldLocalChar)>>)) >>),
         Lit("@"),
         Cat(<< Plus(Cat(<< Alnum,
                            Opt(Cat(<<Star(AlnumHyphen), Alnum>>)),
                            Lit(".") >>)),
                Alpha, Alpha, Star(Alpha) >>) >>)

\* [a-zA-Z0-9!#$%&'*+/=?^_`{|}~-]  (the backquote is written U+0060)
rfcAtomChar ==
  Pos(Lower \cup Upper \cup Digit \cup
      {"!", "#", "$", "%", "&", "'", "*", "+", "/", "=", "?", "^", "_", "U+0060",
       "{", "|", "}", "~", "-"})

\* variant: the dot is a member of the atom class
rfcUnquotedLocal_DotInClass ==
  Plus(Pos(rfcAtomChar.chars \cup {"."}))

rfcUnquotedLocal ==
  Cat(<< Plus(rfcAtomChar), Star(Cat(<<Lit("."), Plus(rfcAtomChar)>>)) >>)

rfcQuotedLocal ==
  Cat(<< Lit("\""),
         Star(Alt(<< Neg({"\"", "\\"}), Cat(<<Lit("\\"), Dot>>) >>)),
         Lit("\"") >>)

\* variant: a label before a dot may be empty
rfcDomain_EmptyLabel ==
  Cat(<< Star(Cat(<<Star(AlnumHyphen), Lit(".")>>)), Plus(AlnumHyphen) >>)

rfcDomain ==
  Cat(<< Star(Cat(<<Plus(AlnumHyphen), Lit(".")>>)), Plus(AlnumHyphen) >>)

\* 25[0-5]|2[0-4][0-9]|[01]?[0-9][0-9]?
rfcOctet ==
  Alt(<< Cat(<<Lit("2"), Lit("5"), Pos({"0","1","2","3","4","5"})>>),
         Cat(<<Lit("2"), Pos({"0","1","2","3","4"}), Pos(Digit)>>),
         Cat(<<Opt(Pos({"0","1"})), Pos(Digit), Opt(Pos(Digit))>>) >>)

rfcIPv4 ==
  Cat(<< Lit("["), rfcOctet,
         Cat(<<Lit("."), rfcOctet>>),
         Cat(<<Lit("."), rfcOctet>>),
         Cat(<<Lit("."), rfcOctet>>),
         Lit("]") >>)

rfcIPv6 ==
  Cat(<< Lit("["), Lit("I"), Lit("P"), Lit("v"), Lit("6"), Lit(":"),
         Plus(Pos({"a","b","c","d","e","f","A","B","C","D","E","F", ":"}
                  \cup Digit)),
         Lit("]") >>)

rfcSyntaxRegex ==
  Cat(<< Alt(<<rfcUnquotedLocal, rfcQuotedLocal>>),
         Lit("@"),
         Alt(<<rfcDomain, rfcIPv4, rfcIPv6>>) >>)

----------------------------------------------------------------------------
(* String helpers *)

RECURSIVE Trim(_)
\* String.prototype.trim
Trim(s) ==
  IF s = <<>> THEN s
  ELSE IF Head(s) \in WhiteSpace THEN Trim(Tail(s))
  ELSE IF s[Len(s)] \in WhiteSpace THEN Trim(SubSeq(s, 1, Len(s) - 1))
  ELSE s

RECURSIVE Split(_, _)
\* String.prototype.split with a one-character separator
Split(s, c) ==
  IF \A i \in 1..Len(s) : s[i] # c THEN <<s>>
  ELSE LET k == CHOOSE i \in 1..Len(s) :
                  s[i] = c /\ \A j \in 1..(i - 1) : s[j] # c
       IN <<SubSeq(s, 1, k - 1)>> \o Split(SubSeq(s, k + 1, Len(s)), c)

\* s.split('@')[1]; the empty string stands for undefined as well, both
\* are falsy and the code only tests truthiness before using the value
SplitAt1(s) ==
  LET parts == Split(s, "@") IN IF Len(parts) >= 2 THEN parts[2] ELSE <<>>

----------------------------------------------------------------------------
(* validateEmailStrict *)

ValidationModes == {"real-world", "rfc"}

\* the ValidatorOptions argument: absent (given = FALSE), or an object in
\* which each of the two fields may be missing
NoOptions == [given |-> FALSE]
OptionsValues ==
  {NoOptions, [given |-> TRUE]}
    \cup [given : {TRUE}, checkDomain : BOOLEAN]
    \cup [given : {TRUE}, validationMode : ValidationModes]
    \cup [given : {TRUE}, checkDomain : BOOLEAN, validationMode : ValidationModes]

\* options?.f is not undefined
Has(o, f) == o.given /\ f \in DOMAIN o

\* variant: the default policy is 'rfc'
ValidationModeOf_DefaultRfc(o) ==
  IF Has(o, "validationMode") THEN o.validationMode ELSE "rfc"

\* options?.validationMode ?? 'real-world'
ValidationModeOf(o) ==
  IF Has(o, "validationMode") THEN o.validationMode ELSE "real-world"

\* options?.checkDomain ?? false
CheckDomainOf(o) ==
  IF Has(o, "checkDomain") THEN o.checkDomain ELSE FALSE

\* validationMode === 'rfc' ? rfcSyntaxRegex : realWorldEmailRegex
SelectedRegex(validationMode) ==
  IF validationMode = "rfc" THEN rfcSyntaxRegex ELSE realWorldEmailRegex

\* the name under which lastIndex keeps the state of the selected regex
SelectedName(validationMode) ==
  IF validationMode = "rfc" THEN "rfcSyntaxRegex" ELSE "realWorldEmailRegex"

\* variant: both regexes carry the g flag
RegexFlags_Global ==
  [realWorldEmailRegex |-> {"g", "i"}, rfcSyntaxRegex |-> {"g"}]

\* variant: both regexes carry the y flag
RegexFlags_Sticky ==
  [realWorldEmailRegex |-> {"y", "i"}, rfcSyntaxRegex |-> {"y"}]

\* the flags of the two RegExp objects: /.../i and new RegExp(source)
RegexFlags ==
  [realWorldEmailRegex |-> {"i"}, rfcSyntaxRegex |-> {}]

\* RegExp.prototype.test reads and writes lastIndex only under g or y
UsesLastIndex(flags) == "g" \in flags \/ "y" \in flags

\* test() of a pattern ^r$ when lastIndex is li: under g or y the match is
\* attempted from li on, and ^ matches at index 0 only
TestFrom(r, flags, s, li) ==
  IF UsesLastIndex(flags) THEN li = 0 /\ Test(r, s) ELSE Test(r, s)

\* lastIndex after that test(): the end of the match, 0 after a failure,
\* untouched without g and y
LastIndexAfter(r, flags, s, li) ==
  IF UsesLastIndex(flags)
  THEN IF TestFrom(r, flags, s, li) THEN Len(s) ELSE 0
  ELSE li

\* selectedRegex.test(trimmedEmail) on the shared regex object
RegExpTest(validationMode, trimmedEmail) ==
  TestFrom(SelectedRegex(validationMode),
           RegexFlags[SelectedName(validationMode)],
           trimmedEmail,
           lastIndex[SelectedName(validationMode)])

\* variant: the TLD length check rejects a final label shorter than two
PostRegexChecks_TldLength(trimmedEmail) ==
  LET domainPart == SplitAt1(trimmedEmail)
  IN IF domainPart # <<>> /\ Head(domainPart) # "["
     THEN LET labels == Split(domainPart, ".")
              tld == labels[Len(labels)]
          IN /\ Len(tld) >= 2
             /\ \A k \in 1..Len(labels) : labels[k] # <<>>
     ELSE TRUE

\* the post-regex checks of rfc mode; FALSE when they return false
PostRegexChecks(trimmedEmail) ==
  LET domainPart == SplitAt1(trimmedEmail)
  IN IF domainPart # <<>> /\ Head(domainPart) # "["
     THEN LET labels == Split(domainPart, ".")
              tld == labels[Len(labels)]
          IN /\ tld # <<>>
             /\ \A k \in 1..Len(labels) : labels[k] # <<>>
     ELSE TRUE

\* the syntax verdict on a trimmed, non-empty string: the regex test and,
\* in rfc mode, the post-regex checks
SyntaxAccepts(trimmedEmail, validationMode) ==
  /\ Test(SelectedRegex(validationMode), trimmedEmail)
  /\ validationMode = "rfc" => PostRegexChecks(trimmedEmail)

Settled(b) == [pc |-> "resolved", result |-> b, error |-> "none", mxCalls |-> <<>>]
Thrown(e) == [pc |-> "rejected", result |-> FALSE, error |-> e, mxCalls |-> <<>>]
Awaiting(domain) ==
  [pc |-> "awaiting", result |-> FALSE, error |-> "none", mxCalls |-> <<domain>>]

\* variant: the domain check runs before the syntax check
validateString_LookupBeforeSyntax(str, o) ==
  LET trimmedEmail == Trim(str)
      validationMode == ValidationModeOf(o)
      checkDomain == CheckDomainOf(o)
      domain == SplitAt1(trimmedEmail)
  IN IF trimmedEmail = <<>> THEN Settled(FALSE)
     ELSE IF checkDomain /\ domain # <<>> THEN Awaiting(domain)
     ELSE IF ~RegExpTest(validationMode, trimmedEmail)
          THEN Settled(FALSE)
     ELSE IF validationMode = "rfc" /\ ~PostRegexChecks(trimmedEmail)
          THEN Settled(FALSE)
     ELSE IF ~checkDomain THEN Settled(TRUE)
     ELSE Settled(FALSE)

\* lines 72-113: the synchronous part that follows the type check, up to the
\* first return or up to the await of dns.resolveMx(domain)
validateString(str, o) ==
  LET trimmedEmail == Trim(str)
      validationMode == ValidationModeOf(o)
      checkDomain == CheckDomainOf(o)
      domain == SplitAt1(trimmedEmail)
  IN IF trimmedEmail = <<>> THEN Settled(FALSE)
     ELSE IF ~RegExpTest(validationMode, trimmedEmail)
          THEN Settled(FALSE)
     ELSE IF validationMode = "rfc" /\ ~PostRegexChecks(trimmedEmail)
          THEN Settled(FALSE)
     ELSE IF ~checkDomain THEN Settled(TRUE)
     ELSE IF domain = <<>> THEN Settled(FALSE)
     ELSE Awaiting(domain)

\* variant: no typeof guard, the value is used as a string
validateEmailStrict_NoTypeCheck(e, o) == validateString(e.value, o)

\* the synchronous prefix of validateEmailStrict
validateEmailStrict(e, o) ==
  IF e.type # "string" THEN Thrown("TypeError")
  ELSE validateString(e.value, o)

\* lastIndex of the regex objects after the synchronous prefix of the call:
\* test() runs once, on the selected regex, unless the call ended before it
LastIndexAfterCall(e, o) ==
  IF e.type = "string" /\ Trim(e.value) # <<>>
  THEN LET name == SelectedName(ValidationModeOf(o))
       IN [lastIndex EXCEPT
             ![name] = LastIndexAfter(SelectedRegex(ValidationModeOf(o)),
                                      RegexFlags[name], Trim(e.value), lastIndex[name])]
  ELSE lastIndex

\* outcomes of dns.resolveMx: a list of n records, or a failure with a code
\* ("none": an error without a code property)
ErrorCodes == {"ENOTFOUND", "ENODATA", "ESERVFAIL", "ETIMEOUT", "EUNEXPECTED", "none"}
NoOutcome == [kind |-> "pending", n |-> 0, code |-> "none"]
Records(n) == [kind |-> "records", n |-> n, code |-> "none"]
Failure(c) == [kind |-> "error", n |-> 0, code |-> c]

\* variant: any fulfilled lookup counts
HasRecords_AnyList(n) == n >= 0

\* mxRecords && mxRecords.length > 0
HasRecords(n) == n > 0

\* the catch block: every branch returns false
CatchResult(code) ==
  IF code \in {"ENOTFOUND", "ENODATA", "ESERVFAIL", "ETIMEOUT"} THEN FALSE
  ELSE FALSE

----------------------------------------------------------------------------
(* Inputs *)

StringsUpTo(chars, n) == UNION { [1..k -> chars] : k \in 0..n }
Str(s) == [type |-> "string", value |-> s]

\* the non-string arguments of the test suite, by their typeof
NonStrings ==
  { [type |-> "undefined", value |-> <<"undefined">>],
    [type |-> "object", value |-> <<"null">>],
    [type |-> "number", value |-> <<"123">>],
    [type |-> "object", value |-> <<"{}">>],
    [type |-> "object", value |-> <<"[]">>],
    [type |-> "boolean", value |-> <<"true">>] }

\* inputs of the full call: every string over CallChars, blank strings,
\* short strings with whitespace around them, and the non-strings
CallChars == {"a", "@", ".", "\""}
BlankChars == {" ", "\n"}
PaddedStrings ==
  { <<l>> \o s \o <<r>> :
      l \in BlankChars, r \in BlankChars, s \in StringsUpTo(CallChars, MaxLen - 3) }
CallInputs ==
  { Str(s) : s \in StringsUpTo(CallChars, MaxLen) \cup StringsUpTo(BlankChars, MaxLen)
                     \cup PaddedStrings }
    \cup NonStrings

\* inputs of the syntax-only runs: "U+00E9" is a letter outside ASCII
SyntaxChars == {"a", "-", ".", "@", "\"", "U+00E9"}
SyntaxInputs == { Str(s) : s \in StringsUpTo(SyntaxChars, MaxSyntaxLen) }
SyntaxOptions == [given : {TRUE}, checkDomain : {FALSE}, validationMode : ValidationModes]

RealWorldChars == {"a", "1", "-", ".", "@", "\""}
RealWorldInputs == { Str(s) : s \in StringsUpTo(RealWorldChars, MaxRealWorldLen) }
RealWorldOptions == [given : {TRUE}, checkDomain : {FALSE}, validationMode : {"real-world"}]

\* inputs of the trimming runs: every string over TrimChars, and a real-world
\* address with whitespace before and after it
TrimChars == {"a", "@", "\"", " ", "\n"}
PaddedAddresses ==
  { l \o <<"a", "@", "a", ".", "a", "a">> \o r :
      l \in StringsUpTo(BlankChars, 1), r \in StringsUpTo(BlankChars, 1) }
TrimInputs ==
  { Str(s) : s \in StringsUpTo(TrimChars, MaxTrimLen) \cup PaddedAddresses }
TrimOptions ==
  [given : {TRUE}, checkDomain : BOOLEAN, validationMode : ValidationModes]

\* inputs of the address-literal runs: local@[p1.p2.....pk] with up to
\* MaxParts parts taken from OctetSamples, after a dot-atom or a quoted local
\* part
OctetSamples ==
  { <<>>, <<"9">>, <<"0", "0", "7">>, <<"2", "5", "5">>, <<"2", "5", "6">>,
    <<"0", "0", "9", "9">> }
RECURSIVE Join(_)
\* the parts with a dot between neighbours
Join(parts) ==
  IF Len(parts) = 1 THEN parts[1]
  ELSE parts[1] \o <<".">> \o Join(Tail(parts))
LiteralLocals == { <<"a">>, <<"\"", "@", ".", "\"">> }
LiteralAddress(l, parts) == Str(l \o <<"@", "[">> \o Join(parts) \o <<"]">>)
LiteralOptions ==
  [given : {TRUE}, checkDomain : {FALSE}, validationMode : {"rfc"}]

\* inputs of the repeated calls
RepeatChars == {"a", "@", "."}
RepeatInputs == { Str(s) : s \in StringsUpTo(RepeatChars, MaxRepeatLen) }

\* inputs of the concurrent calls: two single-label addresses with different
\* domains, a real-world address, a string without '@', a blank string
ConcurrentInputs ==
  { Str(<<"a", "@", "a">>), Str(<<"b", "@", "b">>),
    Str(<<"a", "@", "a", ".", "a", "a">>), Str(<<"a">>), Str(<<" ">>) }
ConcurrentOptions ==
  [given : {TRUE}, checkDomain : {TRUE}, validationMode : ValidationModes]

----------------------------------------------------------------------------
(* The state machine *)

NoEmail == [type |-> "undefined", value |-> <<>>]

\* a call that has not been made
NotCalled ==
  [email |-> NoEmail, options |-> NoOptions, pc |-> "idle", result |-> FALSE,
   error |-> "none", mxCalls |-> <<>>, mxOutcome |-> NoOutcome]

Init ==
  /\ email = NoEmail
  /\ options = NoOptions
  /\ pc = "idle"
  /\ result = FALSE
  /\ error = "none"
  /\ mxCalls = <<>>
  /\ mxOutcome = NoOutcome
  /\ lastIndex = [realWorldEmailRegex |-> 0, rfcSyntaxRegex |-> 0]
  /\ completed = 0
  /\ inflight = [i \in 1..MaxInFlight |-> NotCalled]

\* a caller invokes validateEmailStrict(e, o); the function runs to its
\* first suspension point or to its end
Invoke(e, o) ==
  /\ pc = "idle"
  /\ LET r == validateEmailStrict(e, o)
     IN /\ pc' = r.pc
        /\ result' = r.result
        /\ error' = r.error
        /\ mxCalls' = r.mxCalls
  /\ email' = e
  /\ options' = o
  /\ lastIndex' = LastIndexAfterCall(e, o)
  /\ UNCHANGED <<mxOutcome, completed, inflight>>

\* dns.resolveMx fulfils with n records
ResolveMxFulfils(n) ==
  /\ pc = "awaiting"
  /\ pc' = "resolved"
  /\ result' = HasRecords(n)
  /\ mxOutcome' = Records(n)
  /\ UNCHANGED <<email, options, error, mxCalls, lastIndex, completed, inflight>>

\* dns.resolveMx rejects with an error carrying the given code
ResolveMxRejects(code) ==
  /\ pc = "awaiting"
  /\ pc' = "resolved"
  /\ result' = CatchResult(code)
  /\ mxOutcome' = Failure(code)
  /\ UNCHANGED <<email, options, error, mxCalls, lastIndex, completed, inflight>>

Call == pc = "idle" /\ \E e \in CallInputs, o \in OptionsValues : Invoke(e, o)
Fulfil == pc = "awaiting" /\ \E n \in 0..MaxRecords : ResolveMxFulfils(n)
Reject == pc = "awaiting" /\ \E code \in ErrorCodes : ResolveMxRejects(code)

Next == Call \/ Fulfil \/ Reject

Spec == Init /\ [][Next]_vars

\* syntax only: both policies, no domain check
NextSyntax ==
  pc = "idle" /\ \E e \in SyntaxInputs, o \in SyntaxOptions : Invoke(e, o)

SpecSyntax == Init /\ [][NextSyntax]_vars

\* syntax only, the real-world policy
NextRealWorld ==
  pc = "idle" /\ \E e \in RealWorldInputs, o \in RealWorldOptions : Invoke(e, o)

SpecRealWorld == Init /\ [][NextRealWorld]_vars

\* whitespace around and inside the input, both policies, with and without
\* the domain check
CallTrim ==
  pc = "idle" /\ \E e \in TrimInputs, o \in TrimOptions : Invoke(e, o)

NextTrim == CallTrim \/ Fulfil \/ Reject

SpecTrim == Init /\ [][NextTrim]_vars

\* bracketed domains under the rfc policy, no domain check
NextLiteral ==
  /\ pc = "idle"
  /\ \E k \in 1..MaxParts :
       \E parts \in [1..k -> OctetSamples], l \in LiteralLocals, o \in LiteralOptions :
         Invoke(LiteralAddress(l, parts), o)

SpecLiteral == Init /\ [][NextLiteral]_vars

\* the promise of the call has settled and the caller is done with it: the
\* locals of the call are gone, the regex objects stay
Return ==
  /\ pc \in {"resolved", "rejected"}
  /\ completed < MaxCalls
  /\ email' = NoEmail
  /\ options' = NoOptions
  /\ pc' = "idle"
  /\ result' = FALSE
  /\ error' = "none"
  /\ mxCalls' = <<>>
  /\ mxOutcome' = NoOutcome
  /\ completed' = completed + 1
  /\ UNCHANGED <<lastIndex, inflight>>

\* one call after another, both policies, no domain check
CallRepeat ==
  pc = "idle" /\ \E e \in RepeatInputs, o \in SyntaxOptions : Invoke(e, o)

NextRepeat == CallRepeat \/ Return

SpecRepeat == Init /\ [][NextRepeat]_vars

\* call i of the concurrent caller runs its synchronous prefix
InvokeInFlight(i, e, o) ==
  /\ inflight[i].pc = "idle"
  /\ LET r == validateEmailStrict(e, o)
     IN inflight' = [inflight EXCEPT
                       ![i] = [email |-> e, options |-> o, pc |-> r.pc,
                               result |-> r.result, error |-> r.error,
                               mxCalls |-> r.mxCalls, mxOutcome |-> NoOutcome]]
  /\ lastIndex' = LastIndexAfterCall(e, o)
  /\ UNCHANGED <<email, options, pc, result, error, mxCalls, mxOutcome, completed>>

\* the lookup of call i fulfils with n records
ResolveMxFulfilsInFlight(i, n) ==
  /\ inflight[i].pc = "awaiting"
  /\ inflight' = [inflight EXCEPT ![i].pc = "resolved",
                                  ![i].result = HasRecords(n),
                                  ![i].mxOutcome = Records(n)]
  /\ UNCHANGED <<email, options, pc, result, error, mxCalls, mxOutcome,
                 lastIndex, completed>>

\* the lookup of call i rejects with an error carrying the given code
ResolveMxRejectsInFlight(i, code) ==
  /\ inflight[i].pc = "awaiting"
  /\ inflight' = [inflight EXCEPT ![i].pc = "resolved",
                                  ![i].result = CatchResult(code),
                                  ![i].mxOutcome = Failure(code)]
  /\ UNCHANGED <<email, options, pc, result, error, mxCalls, mxOutcome,
                 lastIndex, completed>>

CallInFlight ==
  \E i \in 1..MaxInFlight, e \in ConcurrentInputs, o \in ConcurrentOptions :
    InvokeInFlight(i, e, o)
FulfilInFlight ==
  \E i \in 1..MaxInFlight, n \in 0..MaxRecords : ResolveMxFulfilsInFlight(i, n)
RejectInFlight ==
  \E i \in 1..MaxInFlight, code \in ErrorCodes : ResolveMxRejectsInFlight(i, code)

NextConcurrent == CallInFlight \/ FulfilInFlight \/ RejectInFlight

SpecConcurrent == Init /\ [][NextConcurrent]_vars

----------------------------------------------------------------------------
(* Vocabulary of the properties *)

IsString == email.type = "string"
Trimmed == Trim(email.value)
Mode == ValidationModeOf(options)
Returned == pc \in {"resolved", "rejected"}

Chars(s) == { s[i] : i \in 1..Len(s) }
CountOf(s, c) == Cardinality({ i \in 1..Len(s) : s[i] = c })
LettersAndDigits == Lower \cup Upper \cup Digit

\* the part after the '@' that separates local part and domain: no grammar
\* allows an '@' in the domain, so it is the last '@' of the address
AfterLastAt(s) ==
  LET parts == Split(s, "@") IN parts[Len(parts)]
BeforeLastAt(s) ==
  SubSeq(s, 1, Len(s) - Len(AfterLastAt(s)) - 1)

\* non-empty dot-separated labels of letters, digits and hyphens
IsPlainDomain(d) ==
  LET labels == Split(d, ".")
  IN \A k \in 1..Len(labels) :
       /\ labels[k] # <<>>
       /\ Chars(labels[k]) \subseteq LettersAndDigits \cup {"-"}

\* non-empty dot-separated atoms of Rfc dot-atom characters
IsDotAtom(l) ==
  LET atoms == Split(l, ".")
  IN \A k \in 1..Len(atoms) :
       /\ atoms[k] # <<>>
       /\ Chars(atoms[k]) \subseteq rfcAtomChar.chars

RECURSIVE IsQuotedContent(_)
\* zero or more items, each a character other than '"' and '\', or a '\'
\* followed by one character
IsQuotedContent(t) ==
  \/ t = <<>>
  \/ /\ Head(t) \notin {"\"", "\\"}
     /\ IsQuotedContent(Tail(t))
  \/ /\ Head(t) = "\\"
     /\ Len(t) >= 2
     /\ IsQuotedContent(SubSeq(t, 3, Len(t)))

IsQuotedLocal(l) ==
  /\ Len(l) >= 2
  /\ Head(l) = "\""
  /\ l[Len(l)] = "\""
  /\ IsQuotedContent(SubSeq(l, 2, Len(l) - 1))

----------------------------------------------------------------------------
(* C1 *)

RfcOptions == [given |-> TRUE, checkDomain |-> FALSE, validationMode |-> "rfc"]

\* C1: with checkDomain=false, every string accepted under 'real-world' is
\* also accepted under 'rfc'.
C1_RealWorldSubsetOfRfc ==
  (/\ pc = "resolved" /\ IsString
   /\ Mode = "real-world" /\ ~CheckDomainOf(options)
   /\ result)
    => validateEmailStrict(email, RfcOptions).result

----------------------------------------------------------------------------
(* C2 *)

SyntaxRejected ==
  IsString /\ (Trimmed = <<>> \/ ~SyntaxAccepts(Trimmed, Mode))

\* C2: an input that is blank after trimming, or that the syntax check of the
\* selected policy rejects, resolves to false and no MX lookup is made,
\* whatever checkDomain is.
C2_RejectedSyntaxNoLookup ==
  (pc # "idle" /\ SyntaxRejected)
    => (pc = "resolved" /\ ~result /\ error = "none" /\ mxCalls = <<>>)

\* a non-blank input rejected by the syntax check in a call that asked for
\* the domain check
C2_Witness ==
  /\ pc = "resolved" /\ IsString
  /\ Has(options, "checkDomain") /\ options.checkDomain
  /\ Trimmed # <<>> /\ ~SyntaxAccepts(Trimmed, Mode)
  /\ mxCalls = <<>>

----------------------------------------------------------------------------
(* C3 *)

SyntaxAccepted ==
  IsString /\ Trimmed # <<>> /\ SyntaxAccepts(Trimmed, Mode)

\* C3: with checkDomain=true and an input the syntax check accepts, the MX
\* lookup is invoked exactly once; the call does not return without it, and
\* its result is the verdict of that lookup.
C3_AcceptedSyntaxOneLookup ==
  (pc # "idle" /\ SyntaxAccepted /\ CheckDomainOf(options))
    => /\ Len(mxCalls) = 1
       /\ Returned =>
            /\ mxOutcome.kind # "pending"
            /\ result = (mxOutcome.kind = "records" /\ mxOutcome.n >= 1)

----------------------------------------------------------------------------
(* C4 *)

\* C4: the argument of the MX lookup is exactly the domain part of the
\* address, the substring after the '@' that separates local part and domain.
C4_LookupArgIsDomain ==
  mxCalls # <<>> => mxCalls[1] = AfterLastAt(Trimmed)

----------------------------------------------------------------------------
(* C5 *)

\* C5: once the lookup was made the call never rejects, and it resolves to
\* true exactly when the lookup fulfilled with one or more records.
C5_LookupVerdict ==
  mxCalls # <<>>
    => /\ pc \in {"awaiting", "resolved"}
       /\ error = "none"
       /\ pc = "resolved" =>
            /\ mxOutcome.kind \in {"records", "error"}
            /\ result = (mxOutcome.kind = "records" /\ mxOutcome.n >= 1)

\* the lookup fulfilled with an empty list
C5_Witness ==
  /\ pc = "resolved" /\ mxCalls # <<>>
  /\ mxOutcome.kind = "records" /\ mxOutcome.n = 0
  /\ ~result

----------------------------------------------------------------------------
(* C6 *)

\* C6: a non-string email rejects with a TypeError and no lookup is made,
\* whatever the options are.
C6_NonStringTypeError ==
  (pc # "idle" /\ ~IsString)
    => (pc = "rejected" /\ error = "TypeError" /\ mxCalls = <<>>)

\* the number 123 with checkDomain=true and the rfc policy
C6_Witness ==
  /\ pc = "rejected" /\ email.type = "number"
  /\ Has(options, "checkDomain") /\ options.checkDomain
  /\ Has(options, "validationMode") /\ options.validationMode = "rfc"

----------------------------------------------------------------------------
(* C7 *)

\* the options with every missing field filled in with its documented default
WithDefaults(o) ==
  [given |-> TRUE,
   checkDomain |-> IF Has(o, "checkDomain") THEN o.checkDomain ELSE FALSE,
   validationMode |->
     IF Has(o, "validationMode") THEN o.validationMode ELSE "real-world"]

\* C7: a call with missing options behaves as the call with
\* validationMode='real-world' and checkDomain=false for the missing fields;
\* with checkDomain missing no lookup is made and the result is the syntax
\* verdict.
C7_DefaultOptions ==
  (pc # "idle" /\ IsString)
    => LET full == WithDefaults(options)
           d == validateEmailStrict(email, full)
       IN /\ mxCalls = d.mxCalls
          /\ mxCalls = <<>> => (pc = d.pc /\ result = d.result)
          /\ ~Has(options, "checkDomain") =>
               /\ mxCalls = <<>>
               /\ pc = "resolved"
               /\ result = (Trimmed # <<>>
                              /\ SyntaxAccepts(Trimmed, full.validationMode))

\* a call without an options argument that accepts its input
C7_Witness ==
  /\ pc = "resolved" /\ IsString
  /\ ~options.given
  /\ result /\ mxCalls = <<>>

----------------------------------------------------------------------------
(* C8 *)

\* C8: under 'rfc' with checkDomain=false every Q@D is accepted, where Q is a
\* quoted local part and D a plain domain of non-empty labels, also when the
\* quoted content contains '@' or '.'.
C8_QuotedLocalAccepted ==
  (/\ pc = "resolved" /\ IsString
   /\ Mode = "rfc" /\ ~CheckDomainOf(options)
   /\ CountOf(email.value, "@") >= 1
   /\ IsQuotedLocal(BeforeLastAt(email.value))
   /\ IsPlainDomain(AfterLastAt(email.value)))
    => result

----------------------------------------------------------------------------
(* C9 *)

\* exactly one '@', no '"', at least two non-empty labels, non-final labels of
\* letters, digits and inner hyphens, a final label of two or more letters
RealWorldShape(s) ==
  /\ CountOf(s, "@") = 1
  /\ "\"" \notin Chars(s)
  /\ LET labels == Split(AfterLastAt(s), ".")
         n == Len(labels)
     IN /\ n >= 2
        /\ \A k \in 1..n : labels[k] # <<>>
        /\ \A k \in 1..(n - 1) :
             /\ Chars(labels[k]) \subseteq LettersAndDigits \cup {"-"}
             /\ Head(labels[k]) \in LettersAndDigits
             /\ labels[k][Len(labels[k])] \in LettersAndDigits
        /\ Len(labels[n]) >= 2
        /\ Chars(labels[n]) \subseteq Lower \cup Upper

\* C9: every string accepted under 'real-world' has exactly one '@', no
\* double quote, and a domain of two or more non-empty labels whose non-final
\* labels start and end with a letter or digit and whose final label is two
\* or more letters.
C9_RealWorldShape ==
  (/\ pc = "resolved" /\ IsString
   /\ Mode = "real-world" /\ ~CheckDomainOf(options)
   /\ result)
    => RealWorldShape(Trimmed)

\* an accepted address whose domain has a label with a digit
C9_Witness ==
  /\ pc = "resolved" /\ IsString
  /\ Mode = "real-world" /\ result
  /\ "1" \in Chars(AfterLastAt(Trimmed))

----------------------------------------------------------------------------
(* C10 *)

HyphenEdge(label) == Head(label) = "-" \/ label[Len(label)] = "-"

\* a dot-atom local part and a plain domain that is a single label, or ends in
\* a one-character label, or has a label with a hyphen at an edge
LenientShape(s) ==
  /\ CountOf(s, "@") = 1
  /\ IsDotAtom(BeforeLastAt(s))
  /\ IsPlainDomain(AfterLastAt(s))
  /\ LET labels == Split(AfterLastAt(s), ".")
     IN \/ Len(labels) = 1
        \/ Len(labels[Len(labels)]) = 1
        \/ \E k \in 1..Len(labels) : HyphenEdge(labels[k])

\* C10: under 'rfc' with checkDomain=false a dot-atom local part with a
\* single-label domain, a one-character final label, or labels that begin or
\* end with a hyphen is accepted.
C10_RfcLenientDomains ==
  (/\ pc = "resolved" /\ IsString
   /\ Mode = "rfc" /\ ~CheckDomainOf(options)
   /\ LenientShape(Trimmed))
    => result

\* an accepted address with a hyphen-led label and a one-character final label
C10_Witness ==
  /\ pc = "resolved" /\ IsString
  /\ Mode = "rfc" /\ result
  /\ LenientShape(Trimmed)
  /\ LET labels == Split(AfterLastAt(Trimmed), ".")
     IN /\ Len(labels) = 2
        /\ Head(labels[1]) = "-"
        /\ Len(labels[2]) = 1

----------------------------------------------------------------------------
(* C11 *)

HasDoubleDot(s) == \E i \in 1..(Len(s) - 1) : s[i] = "." /\ s[i + 1] = "."

LocalPart == BeforeLastAt(Trimmed)
DomainPart == AfterLastAt(Trimmed)
HasAt == CountOf(Trimmed, "@") >= 1

\* C11 as stated: under both policies an input whose local part or domain
\* part contains two consecutive dots resolves to false, whatever its other
\* characters are.
C11_DoubleDotRejected ==
  (/\ pc # "idle" /\ IsString /\ HasAt
   /\ HasDoubleDot(LocalPart) \/ HasDoubleDot(DomainPart))
    => (pc = "resolved" /\ ~result)

\* C11 as amended: two consecutive dots in the domain part, or in a local part
\* that is not a quoted string of the 'rfc' policy, make the call resolve to
\* false.
C11_UnquotedDoubleDotRejected ==
  (/\ pc # "idle" /\ IsString /\ HasAt
   /\ \/ HasDoubleDot(DomainPart)
      \/ /\ HasDoubleDot(LocalPart)
         /\ ~(Mode = "rfc" /\ IsQuotedLocal(LocalPart)))
    => (pc = "resolved" /\ ~result)

\* an rfc call whose dot-atom characters surround two consecutive dots
C11_Witness ==
  /\ pc = "resolved" /\ IsString /\ HasAt
  /\ Mode = "rfc" /\ ~result
  /\ HasDoubleDot(LocalPart)
  /\ Chars(LocalPart) \subseteq rfcAtomChar.chars \cup {"."}
  /\ Head(LocalPart) # "." /\ LocalPart[Len(LocalPart)] # "."
  /\ IsPlainDomain(DomainPart)

----------------------------------------------------------------------------
(* C16 *)

\* C16: under 'rfc' with checkDomain=false and exactly one '@' in the input,
\* the result is the whole-string match of the Rfc grammar: the post-regex
\* checks never change it.
C16_RefinementNeverRejects ==
  (/\ pc = "resolved" /\ IsString
   /\ Mode = "rfc" /\ ~CheckDomainOf(options)
   /\ CountOf(email.value, "@") = 1)
    => result = Test(rfcSyntaxRegex, Trimmed)

\* an accepted address with one '@' whose domain has more than one label
C16_Witness ==
  /\ pc = "resolved" /\ IsString
  /\ Mode = "rfc" /\ result
  /\ CountOf(email.value, "@") = 1
  /\ Len(Split(DomainPart, ".")) >= 2

----------------------------------------------------------------------------
(* C15 *)

NonBlankAt(s) == { i \in 1..Len(s) : s[i] \notin WhiteSpace }

\* s without its leading and trailing whitespace, by positions
Stripped(s) ==
  IF NonBlankAt(s) = {} THEN <<>>
  ELSE LET first == CHOOSE i \in NonBlankAt(s) : \A j \in NonBlankAt(s) : i <= j
           last == CHOOSE i \in NonBlankAt(s) : \A j \in NonBlankAt(s) : j <= i
       IN SubSeq(s, first, last)

HasBlank(s) == Chars(s) \cap WhiteSpace # {}

\* whitespace in the domain part, or in a local part that is not a quoted
\* string of the 'rfc' policy
BlankOutsideQuotes(t, mode) ==
  \/ HasBlank(AfterLastAt(t))
  \/ /\ HasBlank(BeforeLastAt(t))
     /\ ~(mode = "rfc" /\ IsQuotedLocal(BeforeLastAt(t)))

\* the call on s goes as the call on trim(s)
C15_SameAsTrimmed ==
  (pc # "idle" /\ IsString)
    => LET d == validateEmailStrict(Str(Stripped(email.value)), options)
       IN /\ mxCalls = d.mxCalls
          /\ mxCalls = <<>> => (pc = d.pc /\ result = d.result)

\* whitespace that remains inside the trimmed address, outside a quoted local
\* part, makes the call resolve to false without a lookup
C15_InnerBlankRejected ==
  (/\ pc # "idle" /\ IsString
   /\ BlankOutsideQuotes(Stripped(email.value), Mode))
    => (pc = "resolved" /\ ~result /\ mxCalls = <<>>)

\* the domain handed to the lookup has no whitespace at either end
C15_LookupArgTrimmed ==
  mxCalls # <<>>
    => /\ mxCalls[1] # <<>>
       /\ Head(mxCalls[1]) \notin WhiteSpace
       /\ mxCalls[1][Len(mxCalls[1])] \notin WhiteSpace

\* C15: leading and trailing whitespace of the input is ignored (the call on
\* s goes as the call on trim(s)), the domain argument of a lookup carries no
\* leading or trailing whitespace, and whitespace inside the address still
\* causes rejection.
C15_TrimIgnored ==
  /\ C15_SameAsTrimmed
  /\ C15_InnerBlankRejected
  /\ C15_LookupArgTrimmed

----------------------------------------------------------------------------
(* C14 *)

DigitsInOrder == <<"0", "1", "2", "3", "4", "5", "6", "7", "8", "9">>
DigitValue(c) == (CHOOSE i \in 1..10 : DigitsInOrder[i] = c) - 1

RECURSIVE DecimalValue(_)
DecimalValue(q) ==
  IF q = <<>> THEN 0
  ELSE 10 * DecimalValue(SubSeq(q, 1, Len(q) - 1)) + DigitValue(q[Len(q)])

\* one to three decimal digits with a value between 0 and 255
IsOctet(q) ==
  /\ Len(q) \in 1..3
  /\ Chars(q) \subseteq Digit
  /\ DecimalValue(q) <= 255

IsBracketed(d) == Len(d) >= 2 /\ Head(d) = "[" /\ d[Len(d)] = "]"

\* the dot-separated parts between the brackets
LiteralParts(d) == Split(SubSeq(d, 2, Len(d) - 1), ".")

IsValidLocal(l) == IsDotAtom(l) \/ IsQuotedLocal(l)

\* C14: under 'rfc' an address with a valid local part and a bracketed domain
\* [p1.p2...] of digits and dots is accepted if and only if there are exactly
\* four parts and each is one to three decimal digits with a value from 0 to
\* 255 (the post-regex checks do not apply to a bracketed domain).
C14_BracketedIPv4 ==
  (/\ pc = "resolved" /\ IsString
   /\ Mode = "rfc" /\ ~CheckDomainOf(options)
   /\ HasAt
   /\ IsValidLocal(LocalPart)
   /\ IsBracketed(DomainPart)
   /\ Chars(DomainPart) \subseteq Digit \cup {".", "[", "]"})
    => result = (/\ Len(LiteralParts(DomainPart)) = 4
                 /\ \A k \in 1..4 : IsOctet(LiteralParts(DomainPart)[k]))

\* the same for a dot-atom local part
C14_BracketedIPv4_DotAtom ==
  IsDotAtom(LocalPart) => C14_BracketedIPv4

----------------------------------------------------------------------------
(* C12 *)

\* C12: with checkDomain=false the result is a function of the input string
\* and the policy alone: after any sequence of earlier calls it is the syntax
\* verdict on the trimmed input, so a repeated call gives the same boolean.
C12_ResultIsFunctionOfArguments ==
  (pc = "resolved" /\ IsString /\ ~CheckDomainOf(options))
    => result = (Trimmed # <<>> /\ SyntaxAccepts(Trimmed, Mode))

\* a call that accepts its input after earlier calls have returned
C12_Witness ==
  /\ pc = "resolved" /\ IsString
  /\ completed >= 1
  /\ result

----------------------------------------------------------------------------
(* C13 *)

\* what a call with these arguments does when it runs alone, up to its first
\* suspension point
AloneSync(e, o) ==
  IF e.type # "string" THEN Thrown("TypeError")
  ELSE LET t == Trim(e.value)
       IN IF t = <<>> \/ ~SyntaxAccepts(t, ValidationModeOf(o)) THEN Settled(FALSE)
          ELSE IF ~CheckDomainOf(o) THEN Settled(TRUE)
          ELSE IF SplitAt1(t) = <<>> THEN Settled(FALSE)
          ELSE Awaiting(SplitAt1(t))

\* call c goes as it would alone, given the outcome of its own lookup
AsAlone(c) ==
  LET d == AloneSync(c.email, c.options)
  IN /\ c.mxCalls = d.mxCalls
     /\ c.error = d.error
     /\ d.pc # "awaiting" => (c.pc = d.pc /\ c.result = d.result)
     /\ d.pc = "awaiting" =>
          /\ c.pc \in {"awaiting", "resolved"}
          /\ c.pc = "resolved" =>
               c.result = (c.mxOutcome.kind = "records" /\ c.mxOutcome.n >= 1)

\* a step leaves the arguments and the lookup of every started call as they
\* are, and a settled call entirely
OthersUntouched ==
  \A i \in 1..MaxInFlight :
    /\ inflight[i].pc # "idle" =>
         /\ inflight'[i].email = inflight[i].email
         /\ inflight'[i].options = inflight[i].options
         /\ inflight'[i].mxCalls = inflight[i].mxCalls
    /\ inflight[i].pc \in {"resolved", "rejected"} => inflight'[i] = inflight[i]

\* C13: with several calls in flight and their lookups completing in any
\* order, every call resolves as it would alone with the same arguments and
\* the same outcome of its own lookup, and no step changes the input, policy,
\* domain or verdict of another call.
C13_CallsIndependent ==
  /\ [](\A i \in 1..MaxInFlight : inflight[i].pc # "idle" => AsAlone(inflight[i]))
  /\ [][OthersUntouched]_vars

\* two calls that looked up different domains and resolved differently
C13_Witness ==
  /\ inflight[1].pc = "resolved" /\ inflight[2].pc = "resolved"
  /\ inflight[1].mxCalls # <<>> /\ inflight[2].mxCalls # <<>>
  /\ inflight[1].mxCalls # inflight[2].mxCalls
  /\ inflight[1].result /\ ~inflight[2].result

====
